---------------------------- MODULE Spec2Model ----------------------------
(***************************************************************************)
(* Model of src/voice_agent.py: the VoiceAgent session controller          *)
(* (connect / disconnect / transport event handlers / per-frame            *)
(* transcription loop), the GroqSTT transcription client, and main().      *)
(*                                                                         *)
(* The agent is driven either by main() (driver = "main") or by a generic  *)
(* client that calls connect() and disconnect() in any order (driver =     *)
(* "client").  The transport (livekit Room) and the transcription endpoint *)
(* are external: their outcomes are nondeterministic choices.              *)
(*                                                                         *)
(* VoiceAgent.__init__ sets self.room = None and no code of the repository *)
(* ever assigns it.  AssignRoom models code outside the repository storing *)
(* a Room object in the public attribute; a behaviour in which AssignRoom  *)
(* never fires is the program exactly as written.                          *)
(*                                                                         *)
(* Interleaving points are the awaits of the code: room.connect,           *)
(* publish_track, asyncio.sleep, room.disconnect, the transcription POST   *)
(* and the wait for the next frame.  Code between two awaits is one step.  *)
(***************************************************************************)
EXTENDS Integers, Sequences, FiniteSets, TLC

\* ------------------------------------------------------------------ bounds
MaxCalls == 3      \* connect()/disconnect() invocations made by the client driver
MaxFrames == 2     \* frames delivered by one subscribed track
MaxUrlLen == 3     \* pieces of a configured LIVEKIT_URL
MaxTokenLen == 7   \* characters of a token given to validate_room_name

\* --------------------------------------------------------------- constants
EnvValues == {"unset", "empty", "set"}
Drivers == {"main", "client"}
AllHandlers == {"track_subscribed", "disconnected", "reconnecting", "reconnected"}
TrackKinds == {"AUDIO", "VIDEO"}
Payloads == {"bytes", "jsonable"}
Outcomes == {"text", "empty_text", "no_field", "null_text", "non200",
             "neterr", "badbody", "nonobject"}

VARIABLES
  env,             \* os.getenv view: GROQ_API_KEY, LIVEKIT_URL, LIVEKIT_TOKEN
  driver,          \* who calls the agent's methods
  pc,              \* position of the driver / of the method it is awaiting in
  room,            \* VoiceAgent.room: "None" or "Room"
  audio_track,     \* VoiceAgent.audio_track: "None" or "Track"
  is_connected,    \* VoiceAgent.is_connected
  handlers,        \* event names registered with room.on
  session,         \* transport session: "closed", "open", "lost", "torn"
  nConnect,        \* invocations of connect()
  nDisconnect,     \* invocations of disconnect()
  roomConnects,    \* calls of room.connect
  roomDisconnects, \* calls of room.disconnect
  tracksCreated,   \* calls of LocalAudioTrack.create
  publishes,       \* calls of publish_track
  published,       \* publish_track calls that succeeded
  connectResult,   \* how the last connect() ended
  disconnectResult,\* how the last disconnect() ended
  exitExc,         \* what main() ended with
  interrupted,     \* a top-level interrupt was delivered
  lastEvent,       \* last transport event delivered to a handler
  explicitDone,    \* an explicit disconnect() has completed its teardown and no
                   \* connect() handshake has succeeded since
  loop,            \* on_track_subscribed: "none", "ignored", "waiting",
                   \* "transcribing", "ended", "crashed"
  trackLen,        \* frames the subscribed track delivers
  nread,           \* frames read from track.frames()
  curPayload,      \* payload kind of the frame being transcribed
  sttLog,          \* one record per transcribe() call
  posts,           \* HTTP POSTs issued
  inflight,        \* HTTP POSTs awaiting their response
  transcripts,     \* frames for which "User: ..." was printed
  errlog,          \* frames for which "Error processing audio" was printed
  fnPc,            \* pure functions: "idle", "url_in", "url_out", "tok_in", "tok_out"
  url,             \* the configured LIVEKIT_URL, a sequence of pieces
  connUrl,         \* the url connect() hands to room.connect (line 94)
  token,           \* the argument of validate_room_name, a sequence of characters
  payloadJson,     \* what the data characters of the token's payload encode
  vrResult         \* what validate_room_name returned

agentVars == <<room, audio_track, is_connected, handlers>>
transportVars == <<session, roomConnects, roomDisconnects, tracksCreated, publishes, published>>
driverVars == <<env, driver, pc, nConnect, nDisconnect, connectResult, disconnectResult,
                exitExc, interrupted>>
eventVars == <<lastEvent, explicitDone>>
loopVars == <<loop, trackLen, nread, curPayload, sttLog, posts, inflight, transcripts, errlog>>
fnVars == <<fnPc, url, connUrl, token, payloadJson, vrResult>>
sessVars == <<agentVars, transportVars, driverVars, eventVars, loopVars>>
vars == <<sessVars, fnVars>>

\* ------------------------------------------------------------ pure helpers

\* `if not value` on an os.getenv result: None and "" are both falsy
Missing_OnlyNone(v) == v = "unset"
Missing(v) == v \in {"unset", "empty"}

\* the event loop is running the agent
Alive == pc \notin {"start", "exit"}

\* line 133: `if self.room and self.is_connected`
DisconnectGuard_NoFlagCheck(r, c) == r # "None"
DisconnectGuard(r, c) == r # "None" /\ c

\* is_connected after `await self.room.disconnect()` raised: line 135 is skipped
FlagAfterTeardownError(c) == c

\* line 130: on_reconnected assigns True whatever the state was
OnReconnectedFlag(c) == TRUE

\* line 123
OnDisconnectedFlag(c) == FALSE

\* lines 93-94: connect() has no try block, so what room.connect raises is what
\* connect() raises
RaisedByConnect_Wrapped(e) == "ConnectionError"
RaisedByConnect(e) == e

\* ------------------------------------------------ GroqSTT.transcribe

\* lines 55-62: session.post(json=data) serialises data with json.dumps when
\* the request is built; with a bytes payload that raises TypeError and no
\* request is sent
EncodeFails(p) == p = "bytes"

\* the exception transcribe() lets through for a remote outcome, or "none":
\* line 59 (connection failure), line 65 (body that is not JSON), line 66
\* (.get on a body that is not an object)
TranscribeRaises(o) ==
  CASE o = "neterr" -> "ClientError"
    [] o = "badbody" -> "ContentTypeError"
    [] o = "nonobject" -> "AttributeError"
    [] OTHER -> "none"

\* the value transcribe() returns when it does not raise: lines 64-70
TranscribeValue(o) ==
  CASE o = "text" -> "hello"
    [] o = "empty_text" -> ""
    [] o = "no_field" -> ""
    [] o = "null_text" -> "None"
    [] o = "non200" -> ""
    [] OTHER -> ""

\* line 116: `if transcript`
Truthy_NotNone(v) == v # "None"
Truthy(v) == v \notin {"", "None"}

\* line 118: `except Exception` catches every error transcribe() can raise
ExceptionClasses == {"TypeError", "ClientError", "ContentTypeError", "AttributeError"}
CaughtByLoop_OnlyClientError(e) == e = "ClientError"
CaughtByLoop(e) == e \in ExceptionClasses

\* line 112: the next frame is read only when the body of the loop is done
CanReadNext_NoAwait(l) == l \in {"waiting", "transcribing"}
CanReadNext(l) == l = "waiting"

\* ------------------------------------------- URL normalisation (connect)

\* A URL is a sequence of pieces: the scheme prefixes the code looks for, and
\* "h" for any other run of characters.  No prefix occurs inside another or
\* across two pieces, so str.startswith and str.replace act piece by piece.
UrlPieces == {"wss://", "https://", "http://", "h"}

\* url.startswith(prefix), line 86
StartsWith(u, prefix) == Len(u) > 0 /\ u[1] = prefix

\* url.replace(old, ''), line 87: every occurrence of old goes, wherever it is
Replace(u, old) == SelectSeq(u, LAMBDA x : x # old)

\* lines 86-87
NormalizeUrl(u) ==
  IF StartsWith(u, "wss://")
    THEN u
    ELSE <<"wss://">> \o Replace(Replace(u, "https://"), "http://")

\* ------------------------------------------------- validate_room_name

\* A token is a sequence of characters: "." (the separator), "A" (a base64
\* data character) and "=" (the base64 pad).  What the bytes decoded from the
\* payload segment hold is given beside the token, as payloadJson.
TokenChars == {".", "A", "="}

\* The values json.loads can give, as far as lines 30-37 look at them: the type
\* (object, array, string, or "atom" for a number, true, false or null), whether
\* `'video' in value` (`'room' in value`) holds, and the member.  Every content
\* is paired with every length of the payload segment.
RoomNames == {"room-42", "null"}
InfoValues ==
  [t : {"obj"}, has : {TRUE}, room : RoomNames]
    \cup [t : {"obj", "list", "str"}, has : {FALSE}, room : {"-"}]
    \cup [t : {"list", "str"}, has : {TRUE}, room : {"-"}]
    \cup [t : {"atom"}, has : {FALSE}, room : {"-"}]
NoInfo == [t |-> "atom", has |-> FALSE, room |-> "-"]
JsonValues ==
  [t : {"obj"}, has : {TRUE}, video : InfoValues]
    \cup [t : {"obj", "list", "str"}, has : {FALSE}, video : {NoInfo}]
    \cup [t : {"list", "str"}, has : {TRUE}, video : {NoInfo}]
    \cup [t : {"atom"}, has : {FALSE}, video : {NoInfo}]
\* bytes that are not JSON text
NotJson == [t |-> "notjson", has |-> FALSE, video |-> NoInfo]

\* token.split('.'), line 18: one more segment than there are separators
Split(s) ==
  LET F[i \in 0..Len(s)] ==
        IF i = 0 THEN << <<>> >>
        ELSE IF s[i] = "." THEN Append(F[i - 1], <<>>)
        ELSE [F[i - 1] EXCEPT ![Len(F[i - 1])] = Append(@, s[i])]
  IN F[Len(s)]

\* line 19
SegmentCountOk_AtLeast(n) == n >= 3
SegmentCountOk(n) == n = 3

\* line 25: the number of "=" appended to a payload of length len
PadCount_None(len) == 0
PadCount(len) == 4 - (len % 4)

\* line 25
Padded(seg) == seg \o [i \in 1..PadCount(Len(seg)) |-> "="]

\* base64.b64decode, line 26 (binascii.a2b_base64, not strict): data characters
\* fill quads; a pad that completes a quad holding two or three characters
\* ends the decoding there; other pads are skipped; input that ends inside a
\* quad is an error.  Gives whether it decoded and how many bytes came out;
\* used counts the data characters read so far.
RECURSIVE B64Scan(_, _, _, _, _)
B64Scan(s, i, quad, pads, used) ==
  IF i > Len(s)
    THEN [ok |-> quad = 0, bytes |-> (used \div 4) * 3]
    ELSE IF s[i] = "="
      THEN IF quad >= 2 /\ quad + pads + 1 >= 4
             THEN [ok |-> TRUE, bytes |-> (used \div 4) * 3 + (quad - 1)]
             ELSE B64Scan(s, i + 1, quad, IF quad >= 2 THEN pads + 1 ELSE pads, used)
      ELSE B64Scan(s, i + 1, (quad + 1) % 4, 0, used + 1)

B64Decode(s) == B64Scan(s, 1, 0, 0, 0)

\* json.loads(decoded), line 27: no bytes are not JSON; otherwise js is what
\* the decoded bytes hold
Loaded(dec, js) == IF dec.bytes > 0 THEN js ELSE NotJson

\* `key not in value`, lines 30 and 34: a number, true, false or null ("atom")
\* has no `in`
InRaises(v) == v.t = "atom"

\* value[key], lines 33 and 37: only an object takes a string subscript
SubscriptRaises(v) == v.t # "obj"

\* line 39: `except Exception` catches whatever the body raises
ValidateErrors == {"binascii.Error", "JSONDecodeError", "TypeError"}
CaughtByValidate_OnlyValueError(e) == e \in {"binascii.Error", "JSONDecodeError"}
CaughtByValidate(e) == e \in ValidateErrors

\* the except branch, lines 39-40
Raised(e, pad) ==
  IF CaughtByValidate(e)
    THEN [ok |-> FALSE, value |-> "Error validating token", raised |-> "none", pad |-> pad]
    ELSE [ok |-> FALSE, value |-> "-", raised |-> e, pad |-> pad]

Returned(ok, value, pad) == [ok |-> ok, value |-> value, raised |-> "none", pad |-> pad]

\* validate_room_name, lines 15-40
validate_room_name(tok, js) ==
  LET parts == Split(tok) IN
  IF ~SegmentCountOk(Len(parts))
    THEN Returned(FALSE, "Invalid token format", -1)
    ELSE
      LET payload == parts[2]
          pad == PadCount(Len(payload))
          dec == B64Decode(Padded(payload))
          data == Loaded(dec, js)
      IN  IF ~dec.ok THEN Raised("binascii.Error", pad)
          ELSE IF data = NotJson THEN Raised("JSONDecodeError", pad)
          ELSE IF InRaises(data) THEN Raised("TypeError", pad)
          ELSE IF ~data.has THEN Returned(FALSE, "No room information in token", pad)
          ELSE IF SubscriptRaises(data) THEN Raised("TypeError", pad)
          ELSE IF InRaises(data.video) THEN Raised("TypeError", pad)
          ELSE IF ~data.video.has THEN Returned(FALSE, "No room name in token", pad)
          ELSE IF SubscriptRaises(data.video) THEN Raised("TypeError", pad)
          ELSE Returned(TRUE, data.video.room, pad)

NoResult == [ok |-> FALSE, value |-> "-", raised |-> "none", pad |-> -1]

\* no pure function is under way
FnIdle ==
  /\ fnPc = "idle"
  /\ url = <<>> /\ connUrl = <<>>
  /\ token = <<>> /\ payloadJson = NotJson /\ vrResult = NoResult

\* ---------------------------------------------------------------- Init
SessionInit ==
  /\ env \in [{"GROQ_API_KEY", "LIVEKIT_URL", "LIVEKIT_TOKEN"} -> EnvValues]
  /\ driver \in Drivers
  /\ pc = "start"
  /\ room = "None"
  /\ audio_track = "None"
  /\ is_connected = FALSE
  /\ handlers = {}
  /\ session = "closed"
  /\ nConnect = 0 /\ nDisconnect = 0
  /\ roomConnects = 0 /\ roomDisconnects = 0
  /\ tracksCreated = 0 /\ publishes = 0 /\ published = 0
  /\ connectResult = "none" /\ disconnectResult = "none"
  /\ exitExc = "none"
  /\ interrupted = FALSE
  /\ lastEvent = "none"
  /\ explicitDone = FALSE
  /\ loop = "none" /\ trackLen = 0 /\ nread = 0 /\ curPayload = "none"
  /\ sttLog = <<>> /\ posts = 0 /\ inflight = 0
  /\ transcripts = <<>> /\ errlog = <<>>

Init == SessionInit /\ FnIdle

\* ------------------------------------------------- driver continuations

\* disconnect() entered with the flag value c; e is what main() is ending
\* with.  Sets pc, nDisconnect, roomDisconnects, disconnectResult, exitExc.
DisconnectEntry(e, c) ==
  /\ nDisconnect' = nDisconnect + 1
  /\ IF DisconnectGuard(room, c)
       THEN /\ roomDisconnects' = roomDisconnects + 1
            /\ pc' = "teardown"
            /\ disconnectResult' = "pending"
            /\ exitExc' = e
       ELSE /\ roomDisconnects' = roomDisconnects
            /\ disconnectResult' = "noop"
            /\ IF driver = "main"
                 THEN pc' = "exit" /\ exitExc' = e
                 ELSE pc' = "ready" /\ exitExc' = exitExc

\* connect() returned ("ok") or raised (anything else) with flag value c.
\* main(): a normal return enters the keep-alive loop, an exception runs the
\* finally clause, whose disconnect() starts without any await in between.
ConnectEnds(result, c) ==
  /\ connectResult' = result
  /\ IF driver = "main"
       THEN IF result = "ok"
              THEN /\ pc' = "keepalive"
                   /\ UNCHANGED <<nDisconnect, roomDisconnects, disconnectResult, exitExc>>
              ELSE DisconnectEntry(result, c)
       ELSE /\ pc' = "ready"
            /\ UNCHANGED <<nDisconnect, roomDisconnects, disconnectResult, exitExc>>

\* ------------------------------------------------------------- actions

\* main() line 139 / VoiceAgent.__init__ / GroqSTT.__init__
Construct ==
  /\ UNCHANGED fnVars
  /\ pc = "start"
  /\ IF Missing(env["GROQ_API_KEY"])
       THEN pc' = "exit" /\ exitExc' = "ValueError:GROQ_API_KEY"
       ELSE pc' = "ready" /\ exitExc' = exitExc
  /\ room' = "None" /\ audio_track' = "None" /\ is_connected' = FALSE
  /\ UNCHANGED <<handlers, transportVars, env, driver, nConnect, nDisconnect,
                 connectResult, disconnectResult, interrupted, eventVars, loopVars>>

\* code outside the repository stores a Room in agent.room before connect()
AssignRoom ==
  /\ UNCHANGED fnVars
  /\ pc = "ready" /\ room = "None" /\ nConnect = 0 /\ nDisconnect = 0
  /\ room' = "Room"
  /\ UNCHANGED <<audio_track, is_connected, handlers, transportVars, driverVars,
                 eventVars, loopVars>>

\* connect() lines 79-94, up to the await of room.connect
CallConnect ==
  /\ UNCHANGED fnVars
  /\ pc = "ready"
  /\ IF driver = "main" THEN nConnect = 0 ELSE nConnect + nDisconnect < MaxCalls
  /\ nConnect' = nConnect + 1
  /\ IF Missing(env["LIVEKIT_URL"])
       THEN ConnectEnds("ValueError:LIVEKIT_URL", is_connected)
            /\ roomConnects' = roomConnects
     ELSE IF Missing(env["LIVEKIT_TOKEN"])
       THEN ConnectEnds("ValueError:LIVEKIT_TOKEN", is_connected)
            /\ roomConnects' = roomConnects
     ELSE IF room = "None"
       THEN ConnectEnds("AttributeError", is_connected)
            /\ roomConnects' = roomConnects
     ELSE /\ roomConnects' = roomConnects + 1
          /\ pc' = "handshake"
          /\ connectResult' = "pending"
          /\ UNCHANGED <<nDisconnect, roomDisconnects, disconnectResult, exitExc>>
  /\ UNCHANGED <<agentVars, session, tracksCreated, publishes, published,
                 env, driver, interrupted, eventVars, loopVars>>

\* room.connect returned: lines 95-100, up to the await of publish_track
HandshakeOk ==
  /\ UNCHANGED fnVars
  /\ pc = "handshake"
  /\ session' = "open"
  /\ is_connected' = TRUE
  /\ audio_track' = "Track"
  /\ tracksCreated' = tracksCreated + 1
  /\ publishes' = publishes + 1
  /\ pc' = "publish"
  /\ explicitDone' = FALSE
  /\ UNCHANGED <<room, handlers, roomConnects, roomDisconnects, published,
                 env, driver, nConnect, nDisconnect, connectResult, disconnectResult,
                 exitExc, interrupted, lastEvent, loopVars>>

\* room.connect raised: the error leaves connect() as it is
HandshakeFail ==
  /\ UNCHANGED fnVars
  /\ pc = "handshake"
  /\ ConnectEnds(RaisedByConnect("TransportConnectError"), is_connected)
  /\ UNCHANGED <<agentVars, session, roomConnects, tracksCreated, publishes, published,
                 env, driver, nConnect, interrupted, eventVars, loopVars>>

\* publish_track returned: lines 101-107, connect() returns
PublishOk ==
  /\ UNCHANGED fnVars
  /\ pc = "publish"
  /\ published' = published + 1
  /\ handlers' = AllHandlers
  /\ ConnectEnds("ok", is_connected)
  /\ UNCHANGED <<room, audio_track, is_connected, session, roomConnects,
                 tracksCreated, publishes,
                 env, driver, nConnect, interrupted, eventVars, loopVars>>

\* publish_track raised
PublishFail ==
  /\ UNCHANGED fnVars
  /\ pc = "publish"
  /\ ConnectEnds("PublishError", is_connected)
  /\ UNCHANGED <<agentVars, session, roomConnects, tracksCreated, publishes, published,
                 env, driver, nConnect, interrupted, eventVars, loopVars>>

\* main() lines 143-148: the keep-alive loop wakes up, finds the flag false,
\* and the finally clause calls disconnect()
KeepAliveExit ==
  /\ UNCHANGED fnVars
  /\ pc = "keepalive"
  /\ ~is_connected
  /\ DisconnectEntry("none", is_connected)
  /\ UNCHANGED <<agentVars, session, roomConnects, tracksCreated, publishes, published,
                 env, driver, nConnect, connectResult, interrupted, eventVars, loopVars>>

\* main() lines 145-148: a top-level interrupt reaches main() at one of its
\* awaits; the finally clause calls disconnect()
Interrupt ==
  /\ UNCHANGED fnVars
  /\ driver = "main"
  /\ pc \in {"handshake", "publish", "keepalive"}
  /\ interrupted' = TRUE
  /\ connectResult' = IF pc = "keepalive" THEN connectResult ELSE "KeyboardInterrupt"
  /\ DisconnectEntry("KeyboardInterrupt", is_connected)
  /\ UNCHANGED <<agentVars, session, roomConnects, tracksCreated, publishes, published,
                 env, driver, nConnect, eventVars, loopVars>>

\* the client driver calls disconnect(): lines 132-134
CallDisconnect ==
  /\ UNCHANGED fnVars
  /\ driver = "client"
  /\ pc = "ready"
  /\ nConnect + nDisconnect < MaxCalls
  /\ DisconnectEntry(exitExc, is_connected)
  /\ UNCHANGED <<agentVars, session, roomConnects, tracksCreated, publishes, published,
                 env, driver, nConnect, connectResult, interrupted, eventVars, loopVars>>

\* room.disconnect returned: lines 135-136
TeardownOk ==
  /\ UNCHANGED fnVars
  /\ pc = "teardown"
  /\ session' = "torn"
  /\ is_connected' = FALSE
  /\ disconnectResult' = "ok"
  /\ explicitDone' = TRUE
  /\ pc' = IF driver = "main" THEN "exit" ELSE "ready"
  /\ UNCHANGED <<room, audio_track, handlers, roomConnects, roomDisconnects,
                 tracksCreated, publishes, published,
                 env, driver, nConnect, nDisconnect, connectResult, exitExc,
                 interrupted, lastEvent, loopVars>>

\* room.disconnect raised: the error leaves disconnect(), line 135 never runs
TeardownFail ==
  /\ UNCHANGED fnVars
  /\ pc = "teardown"
  /\ is_connected' = FlagAfterTeardownError(is_connected)
  /\ disconnectResult' = "TeardownError"
  /\ pc' = IF driver = "main" THEN "exit" ELSE "ready"
  /\ exitExc' = IF driver = "main" THEN "TeardownError" ELSE exitExc
  /\ UNCHANGED <<room, audio_track, handlers, transportVars,
                 env, driver, nConnect, nDisconnect, connectResult,
                 interrupted, eventVars, loopVars>>

\* ------------------------------------------------ transport event handlers

\* on_disconnected, lines 121-123
OnDisconnected ==
  /\ UNCHANGED fnVars
  /\ Alive /\ "disconnected" \in handlers
  /\ is_connected' = OnDisconnectedFlag(is_connected)
  /\ session' = IF session = "open" THEN "lost" ELSE session
  /\ lastEvent' = "disconnected"
  /\ UNCHANGED <<room, audio_track, handlers, roomConnects, roomDisconnects,
                 tracksCreated, publishes, published, driverVars, explicitDone, loopVars>>

\* on_reconnecting, lines 125-126: prints only
OnReconnecting ==
  /\ UNCHANGED fnVars
  /\ Alive /\ "reconnecting" \in handlers
  /\ lastEvent' = "reconnecting"
  /\ UNCHANGED <<agentVars, transportVars, driverVars, explicitDone, loopVars>>

\* on_reconnected, lines 128-130
OnReconnected ==
  /\ UNCHANGED fnVars
  /\ Alive /\ "reconnected" \in handlers
  /\ is_connected' = OnReconnectedFlag(is_connected)
  /\ session' = IF session = "lost" THEN "open" ELSE session
  /\ lastEvent' = "reconnected"
  /\ UNCHANGED <<room, audio_track, handlers, roomConnects, roomDisconnects,
                 tracksCreated, publishes, published, driverVars, explicitDone, loopVars>>

\* the transport loses the session while no handler is registered for
\* "disconnected" (between line 94 and line 105): the event reaches nobody
TransportDropUnheard ==
  /\ UNCHANGED fnVars
  /\ Alive /\ session = "open" /\ "disconnected" \notin handlers
  /\ session' = "lost"
  /\ UNCHANGED <<agentVars, roomConnects, roomDisconnects, tracksCreated, publishes,
                 published, driverVars, eventVars, loopVars>>

\* ----------------------------------------------- on_track_subscribed

\* the body of the loop for frame f ended: transcribe() raised exc (or
\* "none") or returned value.  Lines 116-119.
FrameDone(f, exc, value) ==
  IF exc # "none"
    THEN /\ transcripts' = transcripts
         /\ IF CaughtByLoop(exc)
              THEN errlog' = Append(errlog, f) /\ loop' = "waiting"
              ELSE errlog' = errlog /\ loop' = "crashed"
    ELSE /\ errlog' = errlog
         /\ loop' = "waiting"
         /\ transcripts' = IF Truthy(value) THEN Append(transcripts, f) ELSE transcripts

\* the transport delivers track_subscribed: lines 109-111
TrackSubscribed ==
  /\ UNCHANGED fnVars
  /\ Alive /\ "track_subscribed" \in handlers /\ loop = "none"
  /\ \E kind \in TrackKinds, n \in 0..MaxFrames :
       IF kind = "AUDIO"
         THEN loop' = "waiting" /\ trackLen' = n
         ELSE loop' = "ignored" /\ trackLen' = trackLen
  /\ UNCHANGED <<agentVars, transportVars, driverVars, eventVars,
                 nread, curPayload, sttLog, posts, inflight, transcripts, errlog>>

\* track.frames() yields the next frame and transcribe() is called with it:
\* lines 112-115 and 49-63, up to the await of the POST
ReadFrame ==
  /\ UNCHANGED fnVars
  /\ Alive /\ loop \notin {"none", "ignored", "ended", "crashed"}
  /\ CanReadNext(loop) /\ nread < trackLen
  /\ nread' = nread + 1
  /\ \E p \in Payloads :
       IF EncodeFails(p)
         THEN /\ sttLog' = Append(sttLog, [frame |-> nread + 1, payload |-> p,
                                           outcome |-> "none", posted |-> FALSE,
                                           raised |-> "TypeError", value |-> ""])
              /\ FrameDone(nread + 1, "TypeError", "")
              /\ UNCHANGED <<posts, inflight, curPayload>>
         ELSE /\ posts' = posts + 1
              /\ inflight' = inflight + 1
              /\ curPayload' = p
              /\ loop' = "transcribing"
              /\ UNCHANGED <<sttLog, transcripts, errlog>>
  /\ UNCHANGED <<agentVars, transportVars, driverVars, eventVars, trackLen>>

\* the POST completes with outcome o: lines 63-70, then lines 116-119
Response ==
  /\ UNCHANGED fnVars
  /\ Alive /\ loop = "transcribing" /\ inflight > 0
  /\ \E o \in Outcomes :
       /\ sttLog' = Append(sttLog, [frame |-> nread, payload |-> curPayload,
                                    outcome |-> o, posted |-> TRUE,
                                    raised |-> TranscribeRaises(o),
                                    value |-> TranscribeValue(o)])
       /\ FrameDone(nread, TranscribeRaises(o), TranscribeValue(o))
  /\ inflight' = inflight - 1
  /\ curPayload' = "none"
  /\ UNCHANGED <<agentVars, transportVars, driverVars, eventVars, trackLen, nread, posts>>

\* track.frames() is exhausted: the handler returns
TrackEnd ==
  /\ UNCHANGED fnVars
  /\ Alive /\ loop = "waiting" /\ nread = trackLen
  /\ loop' = "ended"
  /\ UNCHANGED <<agentVars, transportVars, driverVars, eventVars,
                 trackLen, nread, curPayload, sttLog, posts, inflight, transcripts, errlog>>

\* The session lifecycle: connect, disconnect and the transport's events, under
\* either driver.
Next ==
  \/ Construct
  \/ AssignRoom
  \/ CallConnect
  \/ HandshakeOk
  \/ HandshakeFail
  \/ PublishOk
  \/ PublishFail
  \/ KeepAliveExit
  \/ Interrupt
  \/ CallDisconnect
  \/ TeardownOk
  \/ TeardownFail
  \/ OnDisconnected
  \/ OnReconnecting
  \/ OnReconnected
  \/ TransportDropUnheard

Spec == Init /\ [][Next]_vars

\* main() with the frame loop of a subscribed track running beside it.  The
\* loop and the session share no variable (the loop only stops with the
\* process), so the lifecycle claims are checked under Spec and the frame-loop
\* claims under LoopSpec.
InitMain == Init /\ driver = "main"

NextLoop ==
  \/ Construct
  \/ AssignRoom
  \/ CallConnect
  \/ HandshakeOk
  \/ HandshakeFail
  \/ PublishOk
  \/ PublishFail
  \/ KeepAliveExit
  \/ Interrupt
  \/ TeardownOk
  \/ TeardownFail
  \/ OnDisconnected
  \/ OnReconnecting
  \/ OnReconnected
  \/ TransportDropUnheard
  \/ TrackSubscribed
  \/ ReadFrame
  \/ Response
  \/ TrackEnd

LoopSpec == InitMain /\ [][NextLoop]_vars

\* main()'s keep-alive loop sleeps one second at a time (line 144): whenever it
\* stays able to leave the loop it does leave it.  The transport answers a
\* room.disconnect call, by returning or by raising.
FairSpec ==
  /\ Spec
  /\ WF_vars(KeepAliveExit)
  /\ WF_vars(TeardownOk \/ TeardownFail)

\* the session as main() finds it, with every variable of the environment set
SessionAtRest ==
  /\ SessionInit
  /\ driver = "main"
  /\ env = [k \in {"GROQ_API_KEY", "LIVEKIT_URL", "LIVEKIT_TOKEN"} |-> "set"]

\* connect() lines 81-87 on every configured URL of up to MaxUrlLen pieces
\* (a URL that is empty never gets there: line 82)
UrlInputs == UNION {[1..n -> UrlPieces] : n \in 1..MaxUrlLen}

InitUrl ==
  /\ SessionAtRest
  /\ fnPc = "url_in"
  /\ url \in UrlInputs
  /\ connUrl = <<>>
  /\ token = <<>> /\ payloadJson = NotJson /\ vrResult = NoResult

Normalize ==
  /\ fnPc = "url_in"
  /\ connUrl' = NormalizeUrl(url)
  /\ fnPc' = "url_out"
  /\ UNCHANGED <<sessVars, url, token, payloadJson, vrResult>>

NextUrl == Normalize

UrlSpec == InitUrl /\ [][NextUrl]_vars

\* validate_room_name on every token of up to MaxTokenLen characters
TokenInputs == UNION {[1..n -> TokenChars] : n \in 0..MaxTokenLen}

InitToken ==
  /\ SessionAtRest
  /\ fnPc = "tok_in"
  /\ token \in TokenInputs
  /\ payloadJson \in JsonValues \cup {NotJson}
  /\ vrResult = NoResult
  /\ url = <<>> /\ connUrl = <<>>

Validate ==
  /\ fnPc = "tok_in"
  /\ vrResult' = validate_room_name(token, payloadJson)
  /\ fnPc' = "tok_out"
  /\ UNCHANGED <<sessVars, url, connUrl, token, payloadJson>>

NextToken == Validate

TokenSpec == InitToken /\ [][NextToken]_vars

\* ======================================================================
\* Claims
\* ======================================================================

EnvAbsent(k) == env[k] \in {"unset", "empty"}
ConnectFinished == connectResult \notin {"none", "pending"}
RaisedFrames == {i \in 1..Len(sttLog) : sttLog[i].raised # "none"}
SeqRange(q) == {q[i] : i \in 1..Len(q)}
Increasing(q) == \A i, j \in 1..Len(q) : i < j => q[i] < q[j]

\* C1: connect() on a freshly constructed VoiceAgent (room as __init__ left
\* it), with LIVEKIT_URL and LIVEKIT_TOKEN set and no handshake failure,
\* completes with is_connected = TRUE, exactly one local audio track created
\* and published, and all four handlers registered.
C1_FreshConnectSucceeds ==
  ( /\ room = "None" /\ nConnect = 1 /\ ConnectFinished
    /\ ~EnvAbsent("LIVEKIT_URL") /\ ~EnvAbsent("LIVEKIT_TOKEN")
    /\ connectResult # "TransportConnectError" )
  => ( /\ connectResult = "ok"
       /\ is_connected
       /\ tracksCreated = 1 /\ published = 1
       /\ handlers = AllHandlers )

\* C2: in the frame loop every error raised while processing a frame is caught
\* and reported, and the loop goes on: no error ends the loop, the reported
\* frames are exactly the frames whose processing raised, and when the loop
\* has ended every frame the track delivered has been attempted, in order.
C2_FrameErrorsCaught ==
  /\ loop # "crashed"
  /\ SeqRange(errlog) = RaisedFrames
  /\ Increasing(errlog)
  /\ loop = "ended" => (nread = trackLen /\ Len(sttLog) = trackLen)
  /\ \A i \in 1..Len(sttLog) : sttLog[i].frame = i

\* C2 witness: a two-frame track whose first frame raised and whose second
\* frame was transcribed and printed, after which the loop ended normally
C2_Witness ==
  /\ loop = "ended" /\ trackLen = 2
  /\ errlog = <<1>> /\ transcripts = <<2>>

\* C3: transcribe() never raises: for every remote outcome it returns a
\* string, and the string is "" on every remote failure.
C3_TranscribeNeverRaises ==
  \A i \in 1..Len(sttLog) :
    /\ sttLog[i].raised = "none"
    /\ sttLog[i].value # "None"
    /\ sttLog[i].outcome # "text" => sttLog[i].value = ""

\* C4: within one track the frames are handled in arrival order, one
\* transcribe() call per frame, each issuing at most one POST (no batching, no
\* retry); the call for frame N is over before frame N+1 is read, so at most
\* one request is in flight.
C4_OneCallPerFrameInOrder ==
  /\ inflight \in {0, 1}
  /\ (inflight = 1) <=> (loop = "transcribing")
  /\ nread = Len(sttLog) + inflight
  /\ \A i \in 1..Len(sttLog) : sttLog[i].frame = i
  /\ posts = Cardinality({i \in 1..Len(sttLog) : sttLog[i].posted}) + inflight
  /\ nread <= trackLen

\* C4 witness: two frames, each posted once, the second while the first's
\* result was already recorded
C4_Witness ==
  /\ nread = 2 /\ inflight = 1 /\ Len(sttLog) = 1
  /\ sttLog[1].posted /\ posts = 2

\* C5: after a top-level interrupt, main() exits with the session marked
\* disconnected and no transport session left open.
C5_InterruptDisconnects ==
  (driver = "main" /\ pc = "exit" /\ interrupted)
  => (~is_connected /\ session # "open")

\* C6: a disconnect() entered while connected calls room.disconnect exactly
\* once and ends with is_connected = FALSE, also when room.disconnect raises.
C6_DisconnectMarksDisconnected ==
  [][(pc = "teardown" /\ pc' # "teardown")
       => (is_connected' = FALSE /\ roomDisconnects' = roomDisconnects)]_vars

\* C7: disconnect() invoked while is_connected is false makes no transport
\* call and changes nothing of the session: is_connected, room, audio_track,
\* the handlers and the transport session stay as they were.
C7_DisconnectNoop ==
  [][(nDisconnect' = nDisconnect + 1 /\ ~is_connected)
       => ( /\ roomDisconnects' = roomDisconnects
            /\ pc' # "teardown"
            /\ is_connected' = FALSE
            /\ room' = room /\ audio_track' = audio_track
            /\ handlers' = handlers /\ session' = session )]_vars

\* C7 witness: a disconnect() that was a no-op on an agent with a room, after
\* an earlier explicit disconnect() had torn the session down
C7_Witness ==
  /\ disconnectResult = "noop" /\ room = "Room"
  /\ explicitDone /\ session = "torn" /\ nDisconnect = 2 /\ roomDisconnects = 1

\* C8: with LIVEKIT_URL or LIVEKIT_TOKEN unset or empty, connect() raises the
\* configuration error and no transport call is ever made; with GROQ_API_KEY
\* unset or empty, construction fails and connect() is never called.  In both
\* cases the session is never connected and the keep-alive loop is never
\* entered.
C8_MissingConfigFatal ==
  /\ (EnvAbsent("GROQ_API_KEY") \/ EnvAbsent("LIVEKIT_URL") \/ EnvAbsent("LIVEKIT_TOKEN"))
       => ( /\ ~is_connected /\ session = "closed"
            /\ roomConnects = 0 /\ roomDisconnects = 0 /\ publishes = 0 /\ posts = 0
            /\ pc \in {"start", "ready", "exit"} )
  /\ EnvAbsent("GROQ_API_KEY")
       => ( /\ pc \in {"start", "exit"} /\ nConnect = 0
            /\ pc = "exit" => exitExc = "ValueError:GROQ_API_KEY" )
  /\ (~EnvAbsent("GROQ_API_KEY") /\ nConnect > 0 /\ EnvAbsent("LIVEKIT_URL"))
       => connectResult = "ValueError:LIVEKIT_URL"
  /\ (~EnvAbsent("GROQ_API_KEY") /\ nConnect > 0 /\ ~EnvAbsent("LIVEKIT_URL")
        /\ EnvAbsent("LIVEKIT_TOKEN"))
       => connectResult = "ValueError:LIVEKIT_TOKEN"

\* C8 witness: main() has ended on the missing token, on an agent that had a room
C8_Witness ==
  /\ driver = "main" /\ pc = "exit" /\ room = "Room"
  /\ env["LIVEKIT_TOKEN"] = "empty"
  /\ connectResult = "ValueError:LIVEKIT_TOKEN" /\ exitExc = "ValueError:LIVEKIT_TOKEN"

\* C9: when the handshake of the first connect() fails (room.connect was
\* called and no session was opened), connect() raises the
\* transport's error as it is, room.connect has been called exactly once, the
\* session is not connected, no track is created or published, no handler is
\* registered, and main() ends with that same error.
C9_HandshakeFailurePropagates ==
  (nConnect = 1 /\ roomConnects >= 1 /\ ConnectFinished
     /\ session = "closed" /\ ~interrupted)
  => ( /\ connectResult = "TransportConnectError"
       /\ roomConnects = 1
       /\ ~is_connected
       /\ tracksCreated = 0 /\ publishes = 0 /\ published = 0
       /\ handlers = {}
       /\ roomDisconnects = 0
       /\ driver = "main" => (pc = "exit" /\ exitExc = "TransportConnectError") )

\* C9 witness: main() has ended with the transport's error
C9_Witness ==
  /\ driver = "main" /\ pc = "exit"
  /\ connectResult = "TransportConnectError" /\ exitExc = "TransportConnectError"
  /\ roomConnects = 1

\* C10: once an explicit disconnect() has completed, no transport event makes
\* the session connected again (only a later connect() handshake does).
C10_ExplicitDisconnectTerminal == explicitDone => ~is_connected

\* C15: once the transport has reported a disconnect to a connected session
\* under main(), the keep-alive loop eventually sees is_connected false and
\* main() ends with the session still disconnected (unless a top-level
\* interrupt ends main() first).
C15_DisconnectEndsMain ==
  (driver = "main" /\ pc = "keepalive" /\ lastEvent = "disconnected" /\ ~is_connected)
    ~> (interrupted \/ (pc = "exit" /\ ~is_connected))

\* C16: a reconnecting event delivered to a connected session puts the
\* controller in a state of its own: the agent's state after the event is not
\* the state it had as Connected.
C16_ReconnectingIsAState ==
  [][(is_connected /\ lastEvent # "reconnecting" /\ lastEvent' = "reconnecting")
       => agentVars' # agentVars]_vars

\* C17: a transcript line is printed for a frame exactly when transcribe()
\* returned a non-empty text for it; frames whose transcription is empty or
\* fails print none, and the lines come in the order of their frames.
C17_TranscriptIffNonEmpty ==
  /\ SeqRange(transcripts)
       = {i \in 1..Len(sttLog) : sttLog[i].raised = "none" /\ sttLog[i].value = "hello"}
  /\ Increasing(transcripts)
  /\ \A i \in 1..Len(sttLog) :
       (sttLog[i].raised # "none" \/ sttLog[i].value \in {"", "None"})
         => i \notin SeqRange(transcripts)

\* C17 witness: three kinds of frame have gone by: the first answered with an
\* empty text, the second with a text, and only the second was printed
C17_Witness ==
  /\ Len(sttLog) = 2
  /\ sttLog[1].outcome = "empty_text" /\ sttLog[2].outcome = "text"
  /\ transcripts = <<2>> /\ errlog = <<>>

\* C18: the connected flag follows the transport: under main(), whenever the
\* keep-alive loop is running and the transport session is lost, is_connected
\* is false.
C18_FlagTracksTransport ==
  (driver = "main" /\ pc = "keepalive" /\ session = "lost") => ~is_connected

\* C19: when publish_track raises after a successful handshake, main() ends
\* only after the opened session has been torn down and marked disconnected.
C19_PublishFailureTearsDown ==
  (driver = "main" /\ pc = "exit" /\ connectResult = "PublishError")
  => (~is_connected /\ session # "open")

\* ---------------------------------------------- claims on the pure functions

StripLeadingScheme(u) ==
  IF StartsWith(u, "https://") \/ StartsWith(u, "http://") THEN Tail(u) ELSE u

\* C11: the URL given to the transport starts with wss://; a URL that starts
\* with wss:// is passed unchanged; otherwise only a leading http:// or
\* https:// is stripped and wss:// prepended, the rest kept as it is; and
\* normalizing the result again changes nothing.
C11_UrlNormalization ==
  fnPc = "url_out" =>
    /\ StartsWith(connUrl, "wss://")
    /\ StartsWith(url, "wss://") => connUrl = url
    /\ ~StartsWith(url, "wss://") => connUrl = <<"wss://">> \o StripLeadingScheme(url)
    /\ NormalizeUrl(connUrl) = connUrl

Segments == Split(token)
PayloadSegment == Segments[2]

\* data characters followed by pads only; as many pads as a whole quad needs,
\* or none; at least one byte encoded
ValidBase64(seg) ==
  LET nd == Len(SelectSeq(seg, LAMBDA c : c = "A"))
      k == Len(seg) - nd
  IN  /\ \A i \in 1..Len(seg) : seg[i] = "=" => \A j \in i..Len(seg) : seg[j] = "="
      /\ nd >= 2 /\ nd % 4 # 1
      /\ k \in {0, (4 - (nd % 4)) % 4}

HasField(v) == v.t = "obj" /\ v.has

\* what lines 25-27 make of the payload segment
DecodedPayload ==
  IF B64Decode(Padded(PayloadSegment)).ok
    THEN Loaded(B64Decode(Padded(PayloadSegment)), payloadJson)
    ELSE NotJson

\* C12: a token of three segments whose second is valid base64, padded or not,
\* of an object with a video object with a room gives (True, that room), and
\* the same whatever the first and third segments are.
C12_RoomNameReturned ==
  (/\ fnPc = "tok_out"
   /\ Len(Segments) = 3
   /\ ValidBase64(PayloadSegment)
   /\ HasField(payloadJson) /\ HasField(payloadJson.video))
  => /\ vrResult.ok /\ vrResult.raised = "none"
     /\ vrResult.value = payloadJson.video.room
     /\ vrResult = validate_room_name(<<".">> \o PayloadSegment \o <<".">>, payloadJson)

\* an unpadded payload of a whole quad, between a header and a signature
C12_Witness ==
  /\ fnPc = "tok_out"
  /\ token = <<"A", ".", "A", "A", "A", "A", ".">>
  /\ HasField(payloadJson) /\ HasField(payloadJson.video)
  /\ vrResult.ok /\ vrResult.value = "room-42"

\* C13 as stated: not three segments gives "Invalid token format"; otherwise a
\* decodable payload without a video field gives "No room information in
\* token"; otherwise a video field without a room field gives "No room name in
\* token".
C13_FailureOrder ==
  fnPc = "tok_out" =>
    /\ Len(Segments) # 3 => vrResult = Returned(FALSE, "Invalid token format", -1)
    /\ (Len(Segments) = 3 /\ DecodedPayload # NotJson /\ ~HasField(DecodedPayload))
         => (~vrResult.ok /\ vrResult.value = "No room information in token")
    /\ (Len(Segments) = 3 /\ HasField(DecodedPayload) /\ ~HasField(DecodedPayload.video))
         => (~vrResult.ok /\ vrResult.value = "No room name in token")

\* C13 amended: the same order, for a payload that is an object and a video
\* value that is an object.
C13_FailureOrderObjects ==
  fnPc = "tok_out" =>
    /\ Len(Segments) # 3 => vrResult = Returned(FALSE, "Invalid token format", -1)
    /\ (Len(Segments) = 3 /\ DecodedPayload.t = "obj" /\ ~DecodedPayload.has)
         => (~vrResult.ok /\ vrResult.value = "No room information in token")
    /\ (/\ Len(Segments) = 3 /\ HasField(DecodedPayload)
        /\ DecodedPayload.video.t = "obj" /\ ~DecodedPayload.video.has)
         => (~vrResult.ok /\ vrResult.value = "No room name in token")

\* four segments, the second one a decodable object without video: the count
\* is what is reported
C13_Witness ==
  /\ fnPc = "tok_out"
  /\ token = <<".", "A", "A", ".", ".">>
  /\ payloadJson.t = "obj" /\ ~payloadJson.has
  /\ vrResult.value = "Invalid token format"

ValidateMessages ==
  {"Invalid token format", "No room information in token",
   "No room name in token", "Error validating token"}

\* C14: validate_room_name raises nothing and touches nothing: it returns
\* (True, room name) or (False, an error message), also for malformed base64,
\* bytes that are not JSON, a payload or a video value that is not an object.
C14_NeverRaises ==
  fnPc = "tok_out" =>
    /\ vrResult.raised = "none"
    /\ vrResult.ok => vrResult.value \in RoomNames
    /\ ~vrResult.ok => vrResult.value \in ValidateMessages
    /\ SessionAtRest

\* a payload that decodes to a number: the membership test raises inside
C14_Witness ==
  /\ fnPc = "tok_out"
  /\ Len(Segments) = 3
  /\ DecodedPayload.t = "atom"
  /\ ~vrResult.ok /\ vrResult.value = "Error validating token"

\* C20: the payload segment gets (4 - len mod 4) mod 4 pads, between 0 and 3,
\* and none when its length is a multiple of 4.
C20_PadToMultipleOfFour ==
  (fnPc = "tok_out" /\ Len(Segments) = 3)
  => /\ vrResult.pad = (4 - (Len(PayloadSegment) % 4)) % 4
     /\ vrResult.pad \in 0..3

=============================================================================
